---------------------------- MODULE Spec2Model ----------------------------
(***************************************************************************)
(* GitHub webhook relay (src/main.py): signature verification, event       *)
(* filtering and the retrying background dispatch to the agent platform.   *)
(*                                                                         *)
(* Text is modelled as follows.  A request body (Python bytes) is named by *)
(* the TLA+ string that spells its Python bytes literal ("\\xff" is the    *)
(* one-byte body 0xFF).  A header value or a digest (Python str) is a      *)
(* sequence of code points, because the code slices it and the library     *)
(* inspects its characters.  Library functions (hmac, json) are tables of  *)
(* the values CPython computes on the bodies of the model.                 *)
(***************************************************************************)
EXTENDS Integers, Sequences, FiniteSets, TLC

VARIABLES
  pc,            \* per delivery: idle, receiving (awaiting the body), responded
  request,       \* per delivery: body and the two headers
  response,      \* per delivery: the HTTP response produced
  stages,        \* per delivery: the orchestration stages the handler entered
  tasks,         \* per delivery: the background tasks the handler added
  escaped,       \* per delivery: the exception that left the handler, if any
  dpc,           \* per delivery: where its invoke_agent task is
  attempt,       \* per task: the loop variable of invoke_agent
  payload_json,  \* per task: json.dumps(payload)
  calls,         \* per task: the downstream calls made, in order
  results,       \* per task: how each call ended, "ok" or "error", in order
  slept,         \* per task: the delays slept, in order
  log,           \* per task: the records invoke_agent logged, in order
  env,           \* the process environment after load_dotenv()
  config,        \* the module globals of lines 24-28
  proc,          \* the process: importing, starting, serving, exited
  vin,           \* arguments of one verify_signature call (verification spec)
  vout           \* what that call produced

----------------------------------------------------------------------------
(* Python values *)

None == [some |-> FALSE, v |-> <<>>]
Some(s) == [some |-> TRUE, v |-> s]

Pending == [kind |-> "none", ret |-> FALSE, exc |-> ""]
Return(b) == [kind |-> "return", ret |-> b, exc |-> ""]
Raise(e) == [kind |-> "raise", ret |-> FALSE, exc |-> e]

----------------------------------------------------------------------------
(* Configuration and inputs *)

\* the secret the tests configure (GITHUB_WEBHOOK_SECRET)
GITHUB_WEBHOOK_SECRET == "test-secret"

\* an environment variable: unset, or set to a string
Unset == [some |-> FALSE, v |-> ""]
Set(s) == [some |-> TRUE, v |-> s]

\* os.getenv(name, default)
getenv(environ, name, default) ==
  IF environ[name].some THEN environ[name].v ELSE default

\* int(s) on the PORT strings of the model
int(s) ==
  CASE s = "8000" -> Return(8000)
    [] s = "9000" -> Return(9000)
    [] OTHER -> Raise("ValueError")

NoConfig ==
  [LANGGRAPH_API_KEY |-> "", AGENT_API_URL |-> "", AGENT_ID |-> "",
   GITHUB_WEBHOOK_SECRET |-> "", PORT |-> 0]

\* lines 24-28: the globals read from the environment at import
module_configuration(environ) ==
  LET port == int(getenv(environ, "PORT", "8000"))
  IN  IF port.kind = "raise" THEN port
      ELSE Return([LANGGRAPH_API_KEY |-> getenv(environ, "LANGGRAPH_API_KEY", ""),
                   AGENT_API_URL |-> getenv(environ, "AGENT_API_URL", ""),
                   AGENT_ID |-> getenv(environ, "AGENT_ID", ""),
                   GITHUB_WEBHOOK_SECRET |-> getenv(environ, "GITHUB_WEBHOOK_SECRET", ""),
                   PORT |-> port.ret])

\* validate_config without the GITHUB_WEBHOOK_SECRET check
validate_config_skips_secret(cfg) ==
  LET missing == SelectSeq(<<"LANGGRAPH_API_KEY", "AGENT_API_URL", "AGENT_ID">>,
                           LAMBDA name : cfg[name] = "")
  IN  IF missing # <<>> THEN Raise("ValueError") ELSE Return(TRUE)

\* validate_config without the AGENT_ID check
validate_config_skips_agent_id(cfg) ==
  LET missing == SelectSeq(<<"LANGGRAPH_API_KEY", "AGENT_API_URL",
                             "GITHUB_WEBHOOK_SECRET">>, LAMBDA name : cfg[name] = "")
  IN  IF missing # <<>> THEN Raise("ValueError") ELSE Return(TRUE)

\* lines 41-61: the names whose value is empty; ValueError if there is one
validate_config(cfg) ==
  LET missing == SelectSeq(<<"LANGGRAPH_API_KEY", "AGENT_API_URL", "AGENT_ID",
                             "GITHUB_WEBHOOK_SECRET">>, LAMBDA name : cfg[name] = "")
  IN  IF missing # <<>> THEN Raise("ValueError") ELSE Return(TRUE)

\* the environment the tests import the module under
TestEnv ==
  [LANGGRAPH_API_KEY |-> Set("test-api-key"),
   AGENT_API_URL |-> Set("https://test.langgraph.app"),
   AGENT_ID |-> Set("test-agent-id"),
   GITHUB_WEBHOOK_SECRET |-> Set(GITHUB_WEBHOOK_SECRET),
   PORT |-> Unset]

Secrets == {"test-secret", "It's a Secret to Everybody", "wrong-secret"}

BodyOpenedFull ==
  "{\"action\":\"opened\",\"number\":42,\"repository\":{\"full_name\":\"test/repo\"},\"pull_request\":{\"title\":\"Test PR\"}}"
BodyOpenedBare == "{\"action\":\"opened\"}"
BodyClosed == "{\"action\":\"closed\",\"number\":1}"
BodyNoAction == "{\"number\":42}"
BodyList == "[]"
BodyNotJson == "Hello, World!"
BodyNotUtf8 == "\\xff"
BodyOpenedNullRepo == "{\"action\":\"opened\",\"repository\":null}"

\* opened pull requests with display fields missing, for the handler on its own
BodyOpenedNoNumber ==
  "{\"action\":\"opened\",\"repository\":{\"full_name\":\"test/repo\"},\"pull_request\":{\"title\":\"Test PR\"}}"
BodyOpenedNoRepo == "{\"action\":\"opened\",\"number\":42}"
BodyOpenedEmptyObjects ==
  "{\"action\":\"opened\",\"number\":42,\"repository\":{},\"pull_request\":{}}"

Bodies == {BodyOpenedFull, BodyOpenedBare, BodyClosed, BodyNoAction, BodyList,
           BodyNotJson, BodyNotUtf8, BodyOpenedNullRepo}

\* "sha256="
Sha256Prefix == <<115, 104, 97, 50, 53, 54, 61>>
\* "SHA256="
UpperPrefix == <<83, 72, 65, 50, 53, 54, 61>>
\* "sha256=invalid"
InvalidHeader == <<115, 104, 97, 50, 53, 54, 61, 105, 110, 118, 97, 108, 105, 100>>

----------------------------------------------------------------------------
(* hmac.new(secret.encode("utf-8"), payload_body, hashlib.sha256).hexdigest() *)

hexdigest(secret, payload_body) ==
  CASE
  \* 9422c8fba55b1e26c15afa9ced40a170e9cc6cc008a8a1b7109293aa68db968b
     secret = "test-secret" /\ payload_body = "{\"action\":\"opened\",\"number\":42,\"repository\":{\"full_name\":\"test/repo\"},\"pull_request\":{\"title\":\"Test PR\"}}" ->
         <<57, 52, 50, 50, 99, 56, 102, 98, 97, 53, 53, 98, 49, 101, 50, 54,
           99, 49, 53, 97, 102, 97, 57, 99, 101, 100, 52, 48, 97, 49, 55, 48,
           101, 57, 99, 99, 54, 99, 99, 48, 48, 56, 97, 56, 97, 49, 98, 55,
           49, 48, 57, 50, 57, 51, 97, 97, 54, 56, 100, 98, 57, 54, 56, 98>>
  \* 6e939b5b3d3e8eba83ff81dde0030a8f2190d965e8bec7a17842863e979c4d7d
  [] secret = "test-secret" /\ payload_body = "{\"action\":\"opened\"}" ->
         <<54, 101, 57, 51, 57, 98, 53, 98, 51, 100, 51, 101, 56, 101, 98, 97,
           56, 51, 102, 102, 56, 49, 100, 100, 101, 48, 48, 51, 48, 97, 56, 102,
           50, 49, 57, 48, 100, 57, 54, 53, 101, 56, 98, 101, 99, 55, 97, 49,
           55, 56, 52, 50, 56, 54, 51, 101, 57, 55, 57, 99, 52, 100, 55, 100>>
  \* 5a5428e1f5b39cc4f08ffc2dde2bac85903bbec73b766cd9a83983ac35d2386e
  [] secret = "test-secret" /\ payload_body = "{\"action\":\"closed\",\"number\":1}" ->
         <<53, 97, 53, 52, 50, 56, 101, 49, 102, 53, 98, 51, 57, 99, 99, 52,
           102, 48, 56, 102, 102, 99, 50, 100, 100, 101, 50, 98, 97, 99, 56, 53,
           57, 48, 51, 98, 98, 101, 99, 55, 51, 98, 55, 54, 54, 99, 100, 57,
           97, 56, 51, 57, 56, 51, 97, 99, 51, 53, 100, 50, 51, 56, 54, 101>>
  \* 8a757c587e6d27f45ec8a621e1c011d39c7af1884a0a890f3d8cd089a6f424c0
  [] secret = "test-secret" /\ payload_body = "{\"number\":42}" ->
         <<56, 97, 55, 53, 55, 99, 53, 56, 55, 101, 54, 100, 50, 55, 102, 52,
           53, 101, 99, 56, 97, 54, 50, 49, 101, 49, 99, 48, 49, 49, 100, 51,
           57, 99, 55, 97, 102, 49, 56, 56, 52, 97, 48, 97, 56, 57, 48, 102,
           51, 100, 56, 99, 100, 48, 56, 57, 97, 54, 102, 52, 50, 52, 99, 48>>
  \* 6a297da1af2bdacfa8a7e6fedd073b477e9027dabc1c3898ffa117d2e8719bcc
  [] secret = "test-secret" /\ payload_body = "[]" ->
         <<54, 97, 50, 57, 55, 100, 97, 49, 97, 102, 50, 98, 100, 97, 99, 102,
           97, 56, 97, 55, 101, 54, 102, 101, 100, 100, 48, 55, 51, 98, 52, 55,
           55, 101, 57, 48, 50, 55, 100, 97, 98, 99, 49, 99, 51, 56, 57, 56,
           102, 102, 97, 49, 49, 55, 100, 50, 101, 56, 55, 49, 57, 98, 99, 99>>
  \* 5da450d40aaa5abbb88bc3f47e37163bfc26513d8588b5cd279d7106e16485f5
  [] secret = "test-secret" /\ payload_body = "Hello, World!" ->
         <<53, 100, 97, 52, 53, 48, 100, 52, 48, 97, 97, 97, 53, 97, 98, 98,
           98, 56, 56, 98, 99, 51, 102, 52, 55, 101, 51, 55, 49, 54, 51, 98,
           102, 99, 50, 54, 53, 49, 51, 100, 56, 53, 56, 56, 98, 53, 99, 100,
           50, 55, 57, 100, 55, 49, 48, 54, 101, 49, 54, 52, 56, 53, 102, 53>>
  \* 5bfc4257e3001dcab6d36698846ee21520730441d2fd446b6990395b741f9e81
  [] secret = "test-secret" /\ payload_body = "\\xff" ->
         <<53, 98, 102, 99, 52, 50, 53, 55, 101, 51, 48, 48, 49, 100, 99, 97,
           98, 54, 100, 51, 54, 54, 57, 56, 56, 52, 54, 101, 101, 50, 49, 53,
           50, 48, 55, 51, 48, 52, 52, 49, 100, 50, 102, 100, 52, 52, 54, 98,
           54, 57, 57, 48, 51, 57, 53, 98, 55, 52, 49, 102, 57, 101, 56, 49>>
  \* 65de5d2f93da2a07cfa191b872e36236cbe21b2aad548300517ec8fc7f0695a6
  [] secret = "test-secret" /\ payload_body = "{\"action\":\"opened\",\"repository\":null}" ->
         <<54, 53, 100, 101, 53, 100, 50, 102, 57, 51, 100, 97, 50, 97, 48, 55,
           99, 102, 97, 49, 57, 49, 98, 56, 55, 50, 101, 51, 54, 50, 51, 54,
           99, 98, 101, 50, 49, 98, 50, 97, 97, 100, 53, 52, 56, 51, 48, 48,
           53, 49, 55, 101, 99, 56, 102, 99, 55, 102, 48, 54, 57, 53, 97, 54>>
  \* 78bf65885c19e2156aabc163acb3d981290d1224492cb3de5bbf9f9a878e6340
  [] secret = "It's a Secret to Everybody" /\ payload_body = "{\"action\":\"opened\",\"number\":42,\"repository\":{\"full_name\":\"test/repo\"},\"pull_request\":{\"title\":\"Test PR\"}}" ->
         <<55, 56, 98, 102, 54, 53, 56, 56, 53, 99, 49, 57, 101, 50, 49, 53,
           54, 97, 97, 98, 99, 49, 54, 51, 97, 99, 98, 51, 100, 57, 56, 49,
           50, 57, 48, 100, 49, 50, 50, 52, 52, 57, 50, 99, 98, 51, 100, 101,
           53, 98, 98, 102, 57, 102, 57, 97, 56, 55, 56, 101, 54, 51, 52, 48>>
  \* 5ccdd8275f57d608741ad8390e42e8696ebfcd85607d9c2ef890769dda8f7568
  [] secret = "It's a Secret to Everybody" /\ payload_body = "{\"action\":\"opened\"}" ->
         <<53, 99, 99, 100, 100, 56, 50, 55, 53, 102, 53, 55, 100, 54, 48, 56,
           55, 52, 49, 97, 100, 56, 51, 57, 48, 101, 52, 50, 101, 56, 54, 57,
           54, 101, 98, 102, 99, 100, 56, 53, 54, 48, 55, 100, 57, 99, 50, 101,
           102, 56, 57, 48, 55, 54, 57, 100, 100, 97, 56, 102, 55, 53, 54, 56>>
  \* 2ad24ee52757d5e85feaa69d7db73f7f58b60b34e9dff6093dc4914f60fb8d8e
  [] secret = "It's a Secret to Everybody" /\ payload_body = "{\"action\":\"closed\",\"number\":1}" ->
         <<50, 97, 100, 50, 52, 101, 101, 53, 50, 55, 53, 55, 100, 53, 101, 56,
           53, 102, 101, 97, 97, 54, 57, 100, 55, 100, 98, 55, 51, 102, 55, 102,
           53, 56, 98, 54, 48, 98, 51, 52, 101, 57, 100, 102, 102, 54, 48, 57,
           51, 100, 99, 52, 57, 49, 52, 102, 54, 48, 102, 98, 56, 100, 56, 101>>
  \* bc081202c2355adb8c6708e3f736f59e97c7157b13cd611a6ce739d336be25b0
  [] secret = "It's a Secret to Everybody" /\ payload_body = "{\"number\":42}" ->
         <<98, 99, 48, 56, 49, 50, 48, 50, 99, 50, 51, 53, 53, 97, 100, 98,
           56, 99, 54, 55, 48, 56, 101, 51, 102, 55, 51, 54, 102, 53, 57, 101,
           57, 55, 99, 55, 49, 53, 55, 98, 49, 51, 99, 100, 54, 49, 49, 97,
           54, 99, 101, 55, 51, 57, 100, 51, 51, 54, 98, 101, 50, 53, 98, 48>>
  \* 3c77e8e7f87744ca870cf37ba75921f2672fcd699c53a4a45e99a881df55d846
  [] secret = "It's a Secret to Everybody" /\ payload_body = "[]" ->
         <<51, 99, 55, 55, 101, 56, 101, 55, 102, 56, 55, 55, 52, 52, 99, 97,
           56, 55, 48, 99, 102, 51, 55, 98, 97, 55, 53, 57, 50, 49, 102, 50,
           54, 55, 50, 102, 99, 100, 54, 57, 57, 99, 53, 51, 97, 52, 97, 52,
           53, 101, 57, 57, 97, 56, 56, 49, 100, 102, 53, 53, 100, 56, 52, 54>>
  \* 757107ea0eb2509fc211221cce984b8a37570b6d7586c22c46f4379c8b043e17
  [] secret = "It's a Secret to Everybody" /\ payload_body = "Hello, World!" ->
         <<55, 53, 55, 49, 48, 55, 101, 97, 48, 101, 98, 50, 53, 48, 57, 102,
           99, 50, 49, 49, 50, 50, 49, 99, 99, 101, 57, 56, 52, 98, 56, 97,
           51, 55, 53, 55, 48, 98, 54, 100, 55, 53, 56, 54, 99, 50, 50, 99,
           52, 54, 102, 52, 51, 55, 57, 99, 56, 98, 48, 52, 51, 101, 49, 55>>
  \* 550a0e06f79a6463775907276aeb6720934370ff9de04462857a4d02249477bf
  [] secret = "It's a Secret to Everybody" /\ payload_body = "\\xff" ->
         <<53, 53, 48, 97, 48, 101, 48, 54, 102, 55, 57, 97, 54, 52, 54, 51,
           55, 55, 53, 57, 48, 55, 50, 55, 54, 97, 101, 98, 54, 55, 50, 48,
           57, 51, 52, 51, 55, 48, 102, 102, 57, 100, 101, 48, 52, 52, 54, 50,
           56, 53, 55, 97, 52, 100, 48, 50, 50, 52, 57, 52, 55, 55, 98, 102>>
  \* 1d3ced8d49d82d0564b8b76ef6bf7f8647cc5d0f98551b8f801de1454a123f01
  [] secret = "It's a Secret to Everybody" /\ payload_body = "{\"action\":\"opened\",\"repository\":null}" ->
         <<49, 100, 51, 99, 101, 100, 56, 100, 52, 57, 100, 56, 50, 100, 48, 53,
           54, 52, 98, 56, 98, 55, 54, 101, 102, 54, 98, 102, 55, 102, 56, 54,
           52, 55, 99, 99, 53, 100, 48, 102, 57, 56, 53, 53, 49, 98, 56, 102,
           56, 48, 49, 100, 101, 49, 52, 53, 52, 97, 49, 50, 51, 102, 48, 49>>
  \* ddffe17bbb79c521b4af05029994312c98c4835b86068e1c4364abe6255366db
  [] secret = "wrong-secret" /\ payload_body = "{\"action\":\"opened\",\"number\":42,\"repository\":{\"full_name\":\"test/repo\"},\"pull_request\":{\"title\":\"Test PR\"}}" ->
         <<100, 100, 102, 102, 101, 49, 55, 98, 98, 98, 55, 57, 99, 53, 50, 49,
           98, 52, 97, 102, 48, 53, 48, 50, 57, 57, 57, 52, 51, 49, 50, 99,
           57, 56, 99, 52, 56, 51, 53, 98, 56, 54, 48, 54, 56, 101, 49, 99,
           52, 51, 54, 52, 97, 98, 101, 54, 50, 53, 53, 51, 54, 54, 100, 98>>
  \* f8197419a3ee02a18f46797c6affd543e81427f89d9705a401dde14f85da91d7
  [] secret = "wrong-secret" /\ payload_body = "{\"action\":\"opened\"}" ->
         <<102, 56, 49, 57, 55, 52, 49, 57, 97, 51, 101, 101, 48, 50, 97, 49,
           56, 102, 52, 54, 55, 57, 55, 99, 54, 97, 102, 102, 100, 53, 52, 51,
           101, 56, 49, 52, 50, 55, 102, 56, 57, 100, 57, 55, 48, 53, 97, 52,
           48, 49, 100, 100, 101, 49, 52, 102, 56, 53, 100, 97, 57, 49, 100, 55>>
  \* 40683d45ae8b152f6cf060f5f5695c40e1b0b5eb172058f7ae8c8d842b52536c
  [] secret = "wrong-secret" /\ payload_body = "{\"action\":\"closed\",\"number\":1}" ->
         <<52, 48, 54, 56, 51, 100, 52, 53, 97, 101, 56, 98, 49, 53, 50, 102,
           54, 99, 102, 48, 54, 48, 102, 53, 102, 53, 54, 57, 53, 99, 52, 48,
           101, 49, 98, 48, 98, 53, 101, 98, 49, 55, 50, 48, 53, 56, 102, 55,
           97, 101, 56, 99, 56, 100, 56, 52, 50, 98, 53, 50, 53, 51, 54, 99>>
  \* 620f19248d67ec356c262abea9ede4e81496fd7da8d0471ca91e2522f52043be
  [] secret = "wrong-secret" /\ payload_body = "{\"number\":42}" ->
         <<54, 50, 48, 102, 49, 57, 50, 52, 56, 100, 54, 55, 101, 99, 51, 53,
           54, 99, 50, 54, 50, 97, 98, 101, 97, 57, 101, 100, 101, 52, 101, 56,
           49, 52, 57, 54, 102, 100, 55, 100, 97, 56, 100, 48, 52, 55, 49, 99,
           97, 57, 49, 101, 50, 53, 50, 50, 102, 53, 50, 48, 52, 51, 98, 101>>
  \* 0fff8110364831454a3d252671253e81f012d62a10203ef6735a47d7f3951da0
  [] secret = "wrong-secret" /\ payload_body = "[]" ->
         <<48, 102, 102, 102, 56, 49, 49, 48, 51, 54, 52, 56, 51, 49, 52, 53,
           52, 97, 51, 100, 50, 53, 50, 54, 55, 49, 50, 53, 51, 101, 56, 49,
           102, 48, 49, 50, 100, 54, 50, 97, 49, 48, 50, 48, 51, 101, 102, 54,
           55, 51, 53, 97, 52, 55, 100, 55, 102, 51, 57, 53, 49, 100, 97, 48>>
  \* 067a93552fcc479b3b2bb775fdd484b3a14aff50258794160564599b69bb9acf
  [] secret = "wrong-secret" /\ payload_body = "Hello, World!" ->
         <<48, 54, 55, 97, 57, 51, 53, 53, 50, 102, 99, 99, 52, 55, 57, 98,
           51, 98, 50, 98, 98, 55, 55, 53, 102, 100, 100, 52, 56, 52, 98, 51,
           97, 49, 52, 97, 102, 102, 53, 48, 50, 53, 56, 55, 57, 52, 49, 54,
           48, 53, 54, 52, 53, 57, 57, 98, 54, 57, 98, 98, 57, 97, 99, 102>>
  \* 8be56cbef568731298bde067603af8e4d40d0a413f17e8de332402cb026fa1e2
  [] secret = "wrong-secret" /\ payload_body = "\\xff" ->
         <<56, 98, 101, 53, 54, 99, 98, 101, 102, 53, 54, 56, 55, 51, 49, 50,
           57, 56, 98, 100, 101, 48, 54, 55, 54, 48, 51, 97, 102, 56, 101, 52,
           100, 52, 48, 100, 48, 97, 52, 49, 51, 102, 49, 55, 101, 56, 100, 101,
           51, 51, 50, 52, 48, 50, 99, 98, 48, 50, 54, 102, 97, 49, 101, 50>>
  \* 35eb09f51c42ad31ece8e9dab9362f381d275e2af6439becea2c58066636892f
  [] secret = "wrong-secret" /\ payload_body = "{\"action\":\"opened\",\"repository\":null}" ->
         <<51, 53, 101, 98, 48, 57, 102, 53, 49, 99, 52, 50, 97, 100, 51, 49,
           101, 99, 101, 56, 101, 57, 100, 97, 98, 57, 51, 54, 50, 102, 51, 56,
           49, 100, 50, 55, 53, 101, 50, 97, 102, 54, 52, 51, 57, 98, 101, 99,
           101, 97, 50, 99, 53, 56, 48, 54, 54, 54, 51, 54, 56, 57, 50, 102>>
  \* 5c76a0496b85d3be139770676381de100d5ecb5957b59b10faa5eb8520381002
  [] secret = "test-secret" /\ payload_body = "{\"action\":\"opened\",\"repository\":{\"full_name\":\"test/repo\"},\"pull_request\":{\"title\":\"Test PR\"}}" ->
         <<53, 99, 55, 54, 97, 48, 52, 57, 54, 98, 56, 53, 100, 51, 98, 101,
           49, 51, 57, 55, 55, 48, 54, 55, 54, 51, 56, 49, 100, 101, 49, 48,
           48, 100, 53, 101, 99, 98, 53, 57, 53, 55, 98, 53, 57, 98, 49, 48,
           102, 97, 97, 53, 101, 98, 56, 53, 50, 48, 51, 56, 49, 48, 48, 50>>
  \* fb585394cd1b9bb4e58b0e26cea0f93a6cb698c1da8e5481e393da5a5495d0cd
  [] secret = "test-secret" /\ payload_body = "{\"action\":\"opened\",\"number\":42}" ->
         <<102, 98, 53, 56, 53, 51, 57, 52, 99, 100, 49, 98, 57, 98, 98, 52,
           101, 53, 56, 98, 48, 101, 50, 54, 99, 101, 97, 48, 102, 57, 51, 97,
           54, 99, 98, 54, 57, 56, 99, 49, 100, 97, 56, 101, 53, 52, 56, 49,
           101, 51, 57, 51, 100, 97, 53, 97, 53, 52, 57, 53, 100, 48, 99, 100>>
  \* 84f6870befdc9f5c1a72c6c63d80df89a4188c55b55602aee2fcbd01d3155a6e
  [] secret = "test-secret" /\ payload_body = "{\"action\":\"opened\",\"number\":42,\"repository\":{},\"pull_request\":{}}" ->
         <<56, 52, 102, 54, 56, 55, 48, 98, 101, 102, 100, 99, 57, 102, 53, 99,
           49, 97, 55, 50, 99, 54, 99, 54, 51, 100, 56, 48, 100, 102, 56, 57,
           97, 52, 49, 56, 56, 99, 53, 53, 98, 53, 53, 54, 48, 50, 97, 101,
           101, 50, 102, 99, 98, 100, 48, 49, 100, 51, 49, 53, 53, 97, 54, 101>>
  \* 8cb081ea6fc74f70cf696ead903d8b595c399cf3b00a149ed77956940fe278a0
  [] secret = "It's a Secret to Everybody" /\ payload_body = "{\"action\":\"opened\",\"repository\":{\"full_name\":\"test/repo\"},\"pull_request\":{\"title\":\"Test PR\"}}" ->
         <<56, 99, 98, 48, 56, 49, 101, 97, 54, 102, 99, 55, 52, 102, 55, 48,
           99, 102, 54, 57, 54, 101, 97, 100, 57, 48, 51, 100, 56, 98, 53, 57,
           53, 99, 51, 57, 57, 99, 102, 51, 98, 48, 48, 97, 49, 52, 57, 101,
           100, 55, 55, 57, 53, 54, 57, 52, 48, 102, 101, 50, 55, 56, 97, 48>>
  \* d3e474435b642d2e365048f928cb3d213ce06aff1cc351e881d461be3051d3fd
  [] secret = "It's a Secret to Everybody" /\ payload_body = "{\"action\":\"opened\",\"number\":42}" ->
         <<100, 51, 101, 52, 55, 52, 52, 51, 53, 98, 54, 52, 50, 100, 50, 101,
           51, 54, 53, 48, 52, 56, 102, 57, 50, 56, 99, 98, 51, 100, 50, 49,
           51, 99, 101, 48, 54, 97, 102, 102, 49, 99, 99, 51, 53, 49, 101, 56,
           56, 49, 100, 52, 54, 49, 98, 101, 51, 48, 53, 49, 100, 51, 102, 100>>
  \* bcf510b9e9f1817656a1e2fcea47c443d1528963b8b1f60ea32cbe5c00412c45
  [] secret = "It's a Secret to Everybody" /\ payload_body = "{\"action\":\"opened\",\"number\":42,\"repository\":{},\"pull_request\":{}}" ->
         <<98, 99, 102, 53, 49, 48, 98, 57, 101, 57, 102, 49, 56, 49, 55, 54,
           53, 54, 97, 49, 101, 50, 102, 99, 101, 97, 52, 55, 99, 52, 52, 51,
           100, 49, 53, 50, 56, 57, 54, 51, 98, 56, 98, 49, 102, 54, 48, 101,
           97, 51, 50, 99, 98, 101, 53, 99, 48, 48, 52, 49, 50, 99, 52, 53>>
  \* 28e0ee3e2a6c2ebc23d931d4ee0ba60706e3dc7a1c6d7b8754ce17da19defc4b
  [] secret = "wrong-secret" /\ payload_body = "{\"action\":\"opened\",\"repository\":{\"full_name\":\"test/repo\"},\"pull_request\":{\"title\":\"Test PR\"}}" ->
         <<50, 56, 101, 48, 101, 101, 51, 101, 50, 97, 54, 99, 50, 101, 98, 99,
           50, 51, 100, 57, 51, 49, 100, 52, 101, 101, 48, 98, 97, 54, 48, 55,
           48, 54, 101, 51, 100, 99, 55, 97, 49, 99, 54, 100, 55, 98, 56, 55,
           53, 52, 99, 101, 49, 55, 100, 97, 49, 57, 100, 101, 102, 99, 52, 98>>
  \* e65a5a8a28219832c491980fb59ce3e7376f12a13c5c882cc518b09297c262ae
  [] secret = "wrong-secret" /\ payload_body = "{\"action\":\"opened\",\"number\":42}" ->
         <<101, 54, 53, 97, 53, 97, 56, 97, 50, 56, 50, 49, 57, 56, 51, 50,
           99, 52, 57, 49, 57, 56, 48, 102, 98, 53, 57, 99, 101, 51, 101, 55,
           51, 55, 54, 102, 49, 50, 97, 49, 51, 99, 53, 99, 56, 56, 50, 99,
           99, 53, 49, 56, 98, 48, 57, 50, 57, 55, 99, 50, 54, 50, 97, 101>>
  \* c78bd2bee8cefcc04a838b880791ca028da5cd0f280f84e7a30c73080f3a0aab
  [] secret = "wrong-secret" /\ payload_body = "{\"action\":\"opened\",\"number\":42,\"repository\":{},\"pull_request\":{}}" ->
         <<99, 55, 56, 98, 100, 50, 98, 101, 101, 56, 99, 101, 102, 99, 99, 48,
           52, 97, 56, 51, 56, 98, 56, 56, 48, 55, 57, 49, 99, 97, 48, 50,
           56, 100, 97, 53, 99, 100, 48, 102, 50, 56, 48, 102, 56, 52, 101, 55,
           97, 51, 48, 99, 55, 51, 48, 56, 48, 102, 51, 97, 48, 97, 97, 98>>
  \* f99bfed4062cb155d390d6df82c345bc3cb2da6d3e350ee96e42a32492ae9e32
  [] secret = "" /\ payload_body = "{\"action\":\"opened\",\"number\":42,\"repository\":{\"full_name\":\"test/repo\"},\"pull_request\":{\"title\":\"Test PR\"}}" ->
         <<102, 57, 57, 98, 102, 101, 100, 52, 48, 54, 50, 99, 98, 49, 53, 53,
           100, 51, 57, 48, 100, 54, 100, 102, 56, 50, 99, 51, 52, 53, 98, 99,
           51, 99, 98, 50, 100, 97, 54, 100, 51, 101, 51, 53, 48, 101, 101, 57,
           54, 101, 52, 50, 97, 51, 50, 52, 57, 50, 97, 101, 57, 101, 51, 50>>
  \* 4aab9d35e38f28618f0f04ea1235324b382ff46b28f6b0543bb4e22dbbc9ba53
  [] secret = "" /\ payload_body = "{\"action\":\"opened\"}" ->
         <<52, 97, 97, 98, 57, 100, 51, 53, 101, 51, 56, 102, 50, 56, 54, 49,
           56, 102, 48, 102, 48, 52, 101, 97, 49, 50, 51, 53, 51, 50, 52, 98,
           51, 56, 50, 102, 102, 52, 54, 98, 50, 56, 102, 54, 98, 48, 53, 52,
           51, 98, 98, 52, 101, 50, 50, 100, 98, 98, 99, 57, 98, 97, 53, 51>>
  \* 4cdbaadda6ec083fa9f292ea6fe79e59acd1e18ebad6a115c515740d32008529
  [] secret = "" /\ payload_body = "{\"action\":\"closed\",\"number\":1}" ->
         <<52, 99, 100, 98, 97, 97, 100, 100, 97, 54, 101, 99, 48, 56, 51, 102,
           97, 57, 102, 50, 57, 50, 101, 97, 54, 102, 101, 55, 57, 101, 53, 57,
           97, 99, 100, 49, 101, 49, 56, 101, 98, 97, 100, 54, 97, 49, 49, 53,
           99, 53, 49, 53, 55, 52, 48, 100, 51, 50, 48, 48, 56, 53, 50, 57>>
  \* bade96d75c8b9911bfdc6f90d48ad8af2885de7dfd72ad21963b8c153e8ca001
  [] secret = "" /\ payload_body = "{\"number\":42}" ->
         <<98, 97, 100, 101, 57, 54, 100, 55, 53, 99, 56, 98, 57, 57, 49, 49,
           98, 102, 100, 99, 54, 102, 57, 48, 100, 52, 56, 97, 100, 56, 97, 102,
           50, 56, 56, 53, 100, 101, 55, 100, 102, 100, 55, 50, 97, 100, 50, 49,
           57, 54, 51, 98, 56, 99, 49, 53, 51, 101, 56, 99, 97, 48, 48, 49>>
  \* 83ce13bda6523334daa14f33d1fc2adc98ff8b57c4df5be5d2f58b1c2c78fa1e
  [] secret = "" /\ payload_body = "[]" ->
         <<56, 51, 99, 101, 49, 51, 98, 100, 97, 54, 53, 50, 51, 51, 51, 52,
           100, 97, 97, 49, 52, 102, 51, 51, 100, 49, 102, 99, 50, 97, 100, 99,
           57, 56, 102, 102, 56, 98, 53, 55, 99, 52, 100, 102, 53, 98, 101, 53,
           100, 50, 102, 53, 56, 98, 49, 99, 50, 99, 55, 56, 102, 97, 49, 101>>
  \* 2bbcfa9524f3218c7a34b30e6936f8b1a4516cb097f1a85a1c7d98b5977ec769
  [] secret = "" /\ payload_body = "Hello, World!" ->
         <<50, 98, 98, 99, 102, 97, 57, 53, 50, 52, 102, 51, 50, 49, 56, 99,
           55, 97, 51, 52, 98, 51, 48, 101, 54, 57, 51, 54, 102, 56, 98, 49,
           97, 52, 53, 49, 54, 99, 98, 48, 57, 55, 102, 49, 97, 56, 53, 97,
           49, 99, 55, 100, 57, 56, 98, 53, 57, 55, 55, 101, 99, 55, 54, 57>>
  \* 4985f8759521234ca18940b2ed17fadf89364a4d07c7259ca1aa42942861a61e
  [] secret = "" /\ payload_body = "\\xff" ->
         <<52, 57, 56, 53, 102, 56, 55, 53, 57, 53, 50, 49, 50, 51, 52, 99,
           97, 49, 56, 57, 52, 48, 98, 50, 101, 100, 49, 55, 102, 97, 100, 102,
           56, 57, 51, 54, 52, 97, 52, 100, 48, 55, 99, 55, 50, 53, 57, 99,
           97, 49, 97, 97, 52, 50, 57, 52, 50, 56, 54, 49, 97, 54, 49, 101>>
  \* ea0e7920822908d4f059b1d5fd3a912864f78832c07d6f9fd05ef8c22e02e9fe
  [] secret = "" /\ payload_body = "{\"action\":\"opened\",\"repository\":null}" ->
         <<101, 97, 48, 101, 55, 57, 50, 48, 56, 50, 50, 57, 48, 56, 100, 52,
           102, 48, 53, 57, 98, 49, 100, 53, 102, 100, 51, 97, 57, 49, 50, 56,
           54, 52, 102, 55, 56, 56, 51, 50, 99, 48, 55, 100, 54, 102, 57, 102,
           100, 48, 53, 101, 102, 56, 99, 50, 50, 101, 48, 50, 101, 57, 102, 101>>
  \* da7880ae5f90ca9a47b2793d597b238d4e968a2cb4251e77676b2c8cfedfbaae
  [] secret = "" /\ payload_body = "{\"action\":\"opened\",\"repository\":{\"full_name\":\"test/repo\"},\"pull_request\":{\"title\":\"Test PR\"}}" ->
         <<100, 97, 55, 56, 56, 48, 97, 101, 53, 102, 57, 48, 99, 97, 57, 97,
           52, 55, 98, 50, 55, 57, 51, 100, 53, 57, 55, 98, 50, 51, 56, 100,
           52, 101, 57, 54, 56, 97, 50, 99, 98, 52, 50, 53, 49, 101, 55, 55,
           54, 55, 54, 98, 50, 99, 56, 99, 102, 101, 100, 102, 98, 97, 97, 101>>
  \* 6f81a23544f84cdf086199701e123d3f3ba0d54087de7a8bb4e1d51d6720b92b
  [] secret = "" /\ payload_body = "{\"action\":\"opened\",\"number\":42}" ->
         <<54, 102, 56, 49, 97, 50, 51, 53, 52, 52, 102, 56, 52, 99, 100, 102,
           48, 56, 54, 49, 57, 57, 55, 48, 49, 101, 49, 50, 51, 100, 51, 102,
           51, 98, 97, 48, 100, 53, 52, 48, 56, 55, 100, 101, 55, 97, 56, 98,
           98, 52, 101, 49, 100, 53, 49, 100, 54, 55, 50, 48, 98, 57, 50, 98>>
  \* e80addc0946e43bc04fa0e53200f718b5c4463485dab8608f41d107b11e8a9a6
  [] secret = "" /\ payload_body = "{\"action\":\"opened\",\"number\":42,\"repository\":{},\"pull_request\":{}}" ->
         <<101, 56, 48, 97, 100, 100, 99, 48, 57, 52, 54, 101, 52, 51, 98, 99,
           48, 52, 102, 97, 48, 101, 53, 51, 50, 48, 48, 102, 55, 49, 56, 98,
           53, 99, 52, 52, 54, 51, 52, 56, 53, 100, 97, 98, 56, 54, 48, 56,
           102, 52, 49, 100, 49, 48, 55, 98, 49, 49, 101, 56, 97, 57, 97, 54>>

\* hmac.compare_digest on two str: TypeError unless both are ASCII-only,
\* otherwise equality (in time independent of the contents)
IsAscii(s) == \A i \in 1..Len(s) : s[i] < 128

compare_digest(a, b) ==
  IF IsAscii(a) /\ IsAscii(b) THEN Return(a = b) ELSE Raise("TypeError")

\* str.startswith
startswith(s, prefix) ==
  Len(s) >= Len(prefix) /\ SubSeq(s, 1, Len(prefix)) = prefix

verify_signature(payload_body, signature_header, secret) ==
  IF \/ ~signature_header.some
     \/ Len(signature_header.v) = 0
     \/ ~startswith(signature_header.v, Sha256Prefix)
  THEN Return(FALSE)
  ELSE LET expected_signature == hexdigest(secret, payload_body)
           received_signature ==
             SubSeq(signature_header.v, 8, Len(signature_header.v))
       IN  compare_digest(expected_signature, received_signature)

----------------------------------------------------------------------------
(* Signature headers a sender can put on a body *)

RECURSIVE Pow2(_)
Pow2(k) == IF k = 0 THEN 1 ELSE 2 * Pow2(k - 1)

\* code point c with bit k flipped
FlipBit(c, k) ==
  IF (c \div Pow2(k)) % 2 = 1 THEN c - Pow2(k) ELSE c + Pow2(k)

\* digest d with bit k of its i-th character flipped
Mutate(d, i, k) == [d EXCEPT ![i] = FlipBit(d[i], k)]

\* str.upper on a lowercase hexadecimal digest
upper(d) == [i \in 1..Len(d) |-> IF d[i] >= 97 THEN d[i] - 32 ELSE d[i]]

\* the header GitHub sends for a body signed with secret s
generate_signature(payload, secret) == Sha256Prefix \o hexdigest(secret, payload)

DigestVariants(d) ==
  {d, upper(d), SubSeq(d, 1, Len(d) - 1), d \o <<48>>, <<>>}
    \cup {Mutate(d, i, k) : i \in 1..Len(d), k \in 0..7}

AllHeaders(payload_body) ==
  {None, Some(<<>>), Some(InvalidHeader)}
    \cup UNION {
      {Some(Sha256Prefix \o d) : d \in DigestVariants(hexdigest(s, payload_body))}
        \cup {Some(hexdigest(s, payload_body)),
              Some(UpperPrefix \o hexdigest(s, payload_body))}
      : s \in Secrets}

----------------------------------------------------------------------------
(* JSON values as Python objects *)

JNull == [type |-> "null"]
JStr(s) == [type |-> "str", s |-> s]
JInt(n) == [type |-> "int", n |-> n]
JList(items) == [type |-> "list", items |-> items]
JDict(d) == [type |-> "dict", d |-> d]
EmptyDict == JDict([k \in {} |-> JNull])

PayloadOpenedFull ==
  JDict([action |-> JStr("opened"), number |-> JInt(42),
         repository |-> JDict([full_name |-> JStr("test/repo")]),
         pull_request |-> JDict([title |-> JStr("Test PR")])])
PayloadOpenedBare == JDict([action |-> JStr("opened")])
PayloadClosed == JDict([action |-> JStr("closed"), number |-> JInt(1)])
PayloadNoAction == JDict([number |-> JInt(42)])
PayloadOpenedNullRepo == JDict([action |-> JStr("opened"), repository |-> JNull])
PayloadOpenedNoNumber ==
  JDict([action |-> JStr("opened"),
         repository |-> JDict([full_name |-> JStr("test/repo")]),
         pull_request |-> JDict([title |-> JStr("Test PR")])])
PayloadOpenedNoRepo == JDict([action |-> JStr("opened"), number |-> JInt(42)])
PayloadOpenedEmptyObjects ==
  JDict([action |-> JStr("opened"), number |-> JInt(42),
         repository |-> EmptyDict, pull_request |-> EmptyDict])

\* json.loads(body) on bytes: the decoded value, json.JSONDecodeError for
\* text that is not JSON, UnicodeDecodeError for bytes that are not UTF-8
json_loads(body) ==
  CASE body = BodyOpenedFull -> Return(PayloadOpenedFull)
    [] body = BodyOpenedBare -> Return(PayloadOpenedBare)
    [] body = BodyClosed -> Return(PayloadClosed)
    [] body = BodyNoAction -> Return(PayloadNoAction)
    [] body = BodyList -> Return(JList(<<>>))
    [] body = BodyNotJson -> Raise("JSONDecodeError")
    [] body = BodyNotUtf8 -> Raise("UnicodeDecodeError")
    [] body = BodyOpenedNullRepo -> Return(PayloadOpenedNullRepo)
    [] body = BodyOpenedNoNumber -> Return(PayloadOpenedNoNumber)
    [] body = BodyOpenedNoRepo -> Return(PayloadOpenedNoRepo)
    [] body = BodyOpenedEmptyObjects -> Return(PayloadOpenedEmptyObjects)

\* json.dumps(payload): default separators ", " and ": "
json_dumps(payload) ==
  CASE payload = PayloadOpenedFull ->
         Return("{\"action\": \"opened\", \"number\": 42, \"repository\": {\"full_name\": \"test/repo\"}, \"pull_request\": {\"title\": \"Test PR\"}}")
    [] payload = PayloadOpenedBare -> Return("{\"action\": \"opened\"}")
    [] payload = PayloadClosed -> Return("{\"action\": \"closed\", \"number\": 1}")
    [] payload = PayloadNoAction -> Return("{\"number\": 42}")
    [] payload = JList(<<>>) -> Return("[]")
    [] payload = PayloadOpenedNullRepo ->
         Return("{\"action\": \"opened\", \"repository\": null}")
    [] payload = PayloadOpenedNoNumber ->
         Return("{\"action\": \"opened\", \"repository\": {\"full_name\": \"test/repo\"}, \"pull_request\": {\"title\": \"Test PR\"}}")
    [] payload = PayloadOpenedNoRepo ->
         Return("{\"action\": \"opened\", \"number\": 42}")
    [] payload = PayloadOpenedEmptyObjects ->
         Return("{\"action\": \"opened\", \"number\": 42, \"repository\": {}, \"pull_request\": {}}")

\* obj.get(key, default): dict lookup; any other object has no attribute get
get(obj, key, default) ==
  IF obj.type = "dict"
  THEN Return(IF key \in DOMAIN obj.d THEN obj.d[key] ELSE default)
  ELSE Raise("AttributeError")

\* how an f-string renders a value
format(value) ==
  CASE value.type = "str" -> value.s
    [] value.type = "int" -> ToString(value.n)
    [] value.type = "null" -> "None"

----------------------------------------------------------------------------
(* POST /webhook: the handler after the body has been read *)

NoEvent == [some |-> FALSE, v |-> ""]
Event(s) == [some |-> TRUE, v |-> s]

NoResponse == [status |-> 0, content |-> ""]
Response(content, status_code) == [status |-> status_code, content |-> content]
\* HTTPException(status_code, detail), as the framework answers it
HTTPException(status_code, detail) == [status |-> status_code, content |-> detail]
\* an exception the handler does not catch, as the framework answers it
ServerError == [status |-> 500, content |-> "Internal Server Error"]

\* what one run of the handler did: its response, the stages it entered,
\* the background tasks it added, the exception that escaped it
Outcome(resp, entered, added, exc) ==
  [response |-> resp, stages |-> entered, tasks |-> added, exc |-> exc]

Task(payload, pr_info) == [payload |-> payload, pr_info |-> pr_info]

\* accept with add_task moved above the display-field lookups
accept_task_first(payload, entered) ==
  LET repository == get(payload, "repository", EmptyDict)
      repo_name == get(repository.ret, "full_name", JStr("unknown"))
      pull_request == get(payload, "pull_request", EmptyDict)
      pr_title == get(pull_request.ret, "title", JStr("unknown"))
  IN  IF repo_name.kind = "raise"
      THEN Outcome(ServerError, entered, <<Task(payload, "")>>, repo_name.exc)
      ELSE IF pr_title.kind = "raise"
      THEN Outcome(ServerError, entered, <<Task(payload, "")>>, pr_title.exc)
      ELSE Outcome(Response("Accepted", 202), entered \o <<"dispatch">>,
                   <<Task(payload, "")>>, "")

\* lines 241-249: display fields, add_task, 202
accept(payload, entered) ==
  LET pr_number == get(payload, "number", JStr("unknown"))
      repository == get(payload, "repository", EmptyDict)
      repo_name == get(repository.ret, "full_name", JStr("unknown"))
      pull_request == get(payload, "pull_request", EmptyDict)
      pr_title == get(pull_request.ret, "title", JStr("unknown"))
      pr_info == "PR #" \o format(pr_number.ret) \o " in " \o format(repo_name.ret)
  IN  IF repo_name.kind = "raise"
      THEN Outcome(ServerError, entered, <<>>, repo_name.exc)
      ELSE IF pr_title.kind = "raise"
      THEN Outcome(ServerError, entered, <<>>, pr_title.exc)
      ELSE Outcome(Response("Accepted", 202), entered \o <<"dispatch">>,
                   <<Task(payload, pr_info)>>, "")

\* lines 232-239: the event filter
classify(x_github_event, payload, entered) ==
  IF x_github_event # Event("pull_request")
  THEN Outcome(Response("Event ignored", 200), entered, <<>>, "")
  ELSE LET action == get(payload, "action", JNull)
       IN  IF action.kind = "raise"
           THEN Outcome(ServerError, entered, <<>>, action.exc)
           ELSE IF action.ret # JStr("opened")
           THEN Outcome(Response("Event ignored", 200), entered, <<>>, "")
           ELSE accept(payload, entered)

\* lines 225-230: the body decoded as JSON
parse(body, x_github_event, entered) ==
  LET payload == json_loads(body)
  IN  IF payload.kind = "raise"
      THEN IF payload.exc = "JSONDecodeError"
           THEN Outcome(HTTPException(400, "Invalid JSON payload"), entered, <<>>, "")
           ELSE Outcome(ServerError, entered, <<>>, payload.exc)
      ELSE classify(x_github_event, payload.ret, entered \o <<"classify">>)

\* lines 221-249
webhook(body, x_hub_signature_256, x_github_event) ==
  LET verified == verify_signature(body, x_hub_signature_256,
                                   config.GITHUB_WEBHOOK_SECRET)
  IN  IF verified.kind = "raise"
      THEN Outcome(ServerError, <<"authenticate">>, <<>>, verified.exc)
      ELSE IF ~verified.ret
      THEN Outcome(HTTPException(401, "Invalid signature"), <<"authenticate">>, <<>>, "")
      ELSE parse(body, x_github_event, <<"authenticate", "parse">>)

----------------------------------------------------------------------------
(* The server: concurrent deliveries and their background tasks *)

vvars == <<vin, vout>>
cvars == <<env, config, proc>>

NumRequests == 2
Requests == 1..NumRequests

MAX_RETRIES == 3
RETRY_DELAYS == <<1, 2, 4>>
AGENT_ID == "test-agent-id"

\* X-GitHub-Event values deliveries carry
Events == {NoEvent, Event("pull_request"), Event("push"), Event("pull_request_review")}

\* the deliveries of the concurrent server: every body, with no signature,
\* GitHub's signature, or a signature holding a byte above 0x7F
ServedEvents == {Event("pull_request"), Event("push")}

ServedHeaders(body) ==
  {None,
   Some(generate_signature(body, GITHUB_WEBHOOK_SECRET)),
   Some(Sha256Prefix \o Mutate(hexdigest(GITHUB_WEBHOOK_SECRET, body), 1, 7))}

NoRequest == [body |-> "", x_hub_signature_256 |-> None, x_github_event |-> NoEvent]

LogRecord(level, msg, pr_info, n) ==
  [level |-> level, msg |-> msg, pr_info |-> pr_info, n |-> n]

\* RunsWait with the message sent under role "user"
RunsWait_user_role(content) ==
  [client |-> [url |-> config.AGENT_API_URL, api_key |-> config.LANGGRAPH_API_KEY],
   thread_id |-> "None", assistant_id |-> config.AGENT_ID,
   input |-> [messages |-> <<[role |-> "user", content |-> content]>>]]

\* client.runs.wait(None, AGENT_ID, input=input_data), on the client of
\* get_client(url=AGENT_API_URL, api_key=LANGGRAPH_API_KEY, ...)
RunsWait(content) ==
  [client |-> [url |-> config.AGENT_API_URL, api_key |-> config.LANGGRAPH_API_KEY],
   thread_id |-> "None", assistant_id |-> config.AGENT_ID,
   input |-> [messages |-> <<[role |-> "human", content |-> content]>>]]

Init ==
  /\ pc = [r \in Requests |-> "idle"]
  /\ request = [r \in Requests |-> NoRequest]
  /\ response = [r \in Requests |-> NoResponse]
  /\ stages = [r \in Requests |-> <<>>]
  /\ tasks = [r \in Requests |-> <<>>]
  /\ escaped = [r \in Requests |-> ""]
  /\ dpc = [r \in Requests |-> "none"]
  /\ attempt = [r \in Requests |-> 0]
  /\ payload_json = [r \in Requests |-> ""]
  /\ calls = [r \in Requests |-> <<>>]
  /\ results = [r \in Requests |-> <<>>]
  /\ slept = [r \in Requests |-> <<>>]
  /\ log = [r \in Requests |-> <<>>]
  /\ vin = [payload_body |-> "", signature_header |-> None, secret |-> ""]
  /\ vout = Pending
  /\ env = TestEnv
  /\ config = module_configuration(TestEnv).ret
  /\ proc = "serving"

hvars == <<pc, request, response, stages, tasks, escaped>>
dvars == <<dpc, attempt, payload_json, calls, results, slept, log>>
vars == <<pc, request, response, stages, tasks, escaped,
          dpc, attempt, payload_json, calls, results, slept, log, vin, vout,
          env, config, proc>>

\* a delivery reaches the handler, which suspends in `await request.body()`
Arrive(r) ==
  /\ proc = "serving"
  /\ pc[r] = "idle"
  /\ pc' = [pc EXCEPT ![r] = "receiving"]
  /\ UNCHANGED <<request, response, stages, tasks, escaped, dvars, vvars, cvars>>

\* Handle with an await between verify_signature and json.loads: the
\* handler is suspended again with only authentication done, and finishes
\* the delivery when it is resumed
Handle_suspends_after_auth(r, body, x_hub_signature_256, x_github_event) ==
  LET out == webhook(body, x_hub_signature_256, x_github_event)
  IN  IF stages[r] = <<>> /\ Len(out.stages) > 1
      THEN /\ request' = [request EXCEPT ![r] =
                [body |-> body, x_hub_signature_256 |-> x_hub_signature_256,
                 x_github_event |-> x_github_event]]
           /\ stages' = [stages EXCEPT ![r] = <<"authenticate">>]
           /\ UNCHANGED <<pc, response, tasks, escaped, dvars, vvars, cvars>>
      ELSE /\ stages[r] # <<>> =>
                request[r] = [body |-> body, x_hub_signature_256 |-> x_hub_signature_256,
                              x_github_event |-> x_github_event]
           /\ request' = [request EXCEPT ![r] =
                [body |-> body, x_hub_signature_256 |-> x_hub_signature_256,
                 x_github_event |-> x_github_event]]
           /\ response' = [response EXCEPT ![r] = out.response]
           /\ stages' = [stages EXCEPT ![r] = out.stages]
           /\ tasks' = [tasks EXCEPT ![r] = out.tasks]
           /\ escaped' = [escaped EXCEPT ![r] = out.exc]
           /\ dpc' = [dpc EXCEPT ![r] =
                IF out.tasks # <<>> THEN "scheduled" ELSE "none"]
           /\ pc' = [pc EXCEPT ![r] = "responded"]
           /\ UNCHANGED <<attempt, payload_json, calls, results, slept, log, vvars, cvars>>

\* Handle with `await invoke_agent(...)` in place of add_task: the handler
\* is suspended, its response not yet produced, while the agent is invoked
Handle_awaits_agent(r, body, x_hub_signature_256, x_github_event) ==
  LET out == webhook(body, x_hub_signature_256, x_github_event)
      awaiting == out.tasks # <<>>
  IN  /\ request' = [request EXCEPT ![r] =
           [body |-> body, x_hub_signature_256 |-> x_hub_signature_256,
            x_github_event |-> x_github_event]]
      /\ response' = [response EXCEPT ![r] =
           IF awaiting THEN NoResponse ELSE out.response]
      /\ stages' = [stages EXCEPT ![r] = out.stages]
      /\ tasks' = [tasks EXCEPT ![r] = out.tasks]
      /\ escaped' = [escaped EXCEPT ![r] = out.exc]
      /\ dpc' = [dpc EXCEPT ![r] = IF awaiting THEN "scheduled" ELSE "none"]
      /\ pc' = [pc EXCEPT ![r] = IF awaiting THEN "awaiting_agent" ELSE "responded"]
      /\ UNCHANGED <<attempt, payload_json, calls, results, slept, log, vvars, cvars>>

\* lines 221-249 run to the response without suspending; the framework
\* sends the response and then starts the background tasks
Handle(r, body, x_hub_signature_256, x_github_event) ==
  LET out == webhook(body, x_hub_signature_256, x_github_event)
  IN  /\ request' = [request EXCEPT ![r] =
           [body |-> body, x_hub_signature_256 |-> x_hub_signature_256,
            x_github_event |-> x_github_event]]
      /\ response' = [response EXCEPT ![r] = out.response]
      /\ stages' = [stages EXCEPT ![r] = out.stages]
      /\ tasks' = [tasks EXCEPT ![r] = out.tasks]
      /\ escaped' = [escaped EXCEPT ![r] = out.exc]
      /\ dpc' = [dpc EXCEPT ![r] =
           IF out.tasks # <<>> THEN "scheduled" ELSE "none"]
      /\ pc' = [pc EXCEPT ![r] = "responded"]
      /\ UNCHANGED <<attempt, payload_json, calls, results, slept, log, vvars, cvars>>

Webhook(r) ==
  /\ pc[r] = "receiving"
  /\ \E body \in Bodies, x_github_event \in ServedEvents :
       \E x_hub_signature_256 \in ServedHeaders(body) :
         Handle(r, body, x_hub_signature_256, x_github_event)

\* lines 137-160: the log line of an attempt and the downstream call
BeginAttempt(r, a, content) ==
  LET pr_info == tasks[r][1].pr_info
  IN  /\ log' = [log EXCEPT ![r] = Append(@,
                   IF a = 0
                   THEN LogRecord("info", "Invoking agent", pr_info, 0)
                   ELSE LogRecord("info", "Retrying agent", pr_info, a + 1))]
      /\ calls' = [calls EXCEPT ![r] = Append(@, RunsWait(content))]
      /\ attempt' = [attempt EXCEPT ![r] = a]
      /\ dpc' = [dpc EXCEPT ![r] = "calling"]

\* lines 125-131: get_client raises; nothing catches it in invoke_agent
GetClientRaises(r) ==
  /\ dpc[r] = "scheduled"
  /\ dpc' = [dpc EXCEPT ![r] = "raised"]
  /\ UNCHANGED <<hvars, attempt, payload_json, calls, results, slept, log, vvars, cvars>>

\* lines 125-160: client, json.dumps, first attempt up to its await
InvokeAgent(r) ==
  /\ dpc[r] = "scheduled"
  /\ LET dumped == json_dumps(tasks[r][1].payload)
     IN  IF dumped.kind = "raise"
         THEN /\ dpc' = [dpc EXCEPT ![r] = "raised"]
              /\ UNCHANGED <<attempt, payload_json, calls, results, slept, log>>
         ELSE /\ payload_json' = [payload_json EXCEPT ![r] = dumped.ret]
              /\ BeginAttempt(r, 0, dumped.ret)
              /\ UNCHANGED <<results, slept>>
  /\ UNCHANGED <<hvars, vvars, cvars>>

\* lines 177-180: the awaited call returned a result
CallReturns(r) ==
  /\ dpc[r] = "calling"
  /\ log' = [log EXCEPT ![r] = @ \o
       <<LogRecord("info", "Agent invocation successful", tasks[r][1].pr_info, 0),
         LogRecord("info", "Agent response", "", 0)>>]
  /\ results' = [results EXCEPT ![r] = Append(@, "ok")]
  /\ dpc' = [dpc EXCEPT ![r] = "returned"]
  /\ UNCHANGED <<hvars, attempt, payload_json, calls, slept, vvars, cvars>>

\* should_retry with the bound off by one: a wait follows the last attempt too
should_retry_after_last(a) == a < MAX_RETRIES

\* line 162: a failed attempt is followed by a wait and another attempt
should_retry(a) == a < MAX_RETRIES - 1

\* line 163: RETRY_DELAYS[attempt], a Python list indexed from 0
retry_delay(a) == RETRY_DELAYS[a + 1]

\* lines 161-176: the awaited call raised an Exception
CallRaises(r) ==
  /\ dpc[r] = "calling"
  /\ results' = [results EXCEPT ![r] = Append(@, "error")]
  /\ IF should_retry(attempt[r])
     THEN LET delay == retry_delay(attempt[r])
          IN  /\ log' = [log EXCEPT ![r] = Append(@,
                   LogRecord("warning", "Agent invocation failed. Retrying",
                             tasks[r][1].pr_info, delay))]
              /\ slept' = [slept EXCEPT ![r] = Append(@, delay)]
              /\ dpc' = [dpc EXCEPT ![r] = "sleeping"]
     ELSE /\ log' = [log EXCEPT ![r] = Append(@,
                   LogRecord("error", "Agent invocation failed after attempts",
                             tasks[r][1].pr_info, MAX_RETRIES))]
          /\ dpc' = [dpc EXCEPT ![r] = "returned"]
          /\ UNCHANGED slept
  /\ UNCHANGED <<hvars, attempt, payload_json, calls, vvars, cvars>>

\* SleepEnds with payload_json a module global that every dispatch assigns:
\* the retry sends what the first delivery's dispatch left there
SleepEnds_global_payload(r) ==
  /\ dpc[r] = "sleeping"
  /\ BeginAttempt(r, attempt[r] + 1, payload_json[1])
  /\ UNCHANGED <<hvars, payload_json, results, slept, vvars, cvars>>

\* line 170 completes: the next iteration of the loop, up to its await
SleepEnds(r) ==
  /\ dpc[r] = "sleeping"
  /\ BeginAttempt(r, attempt[r] + 1, payload_json[r])
  /\ UNCHANGED <<hvars, payload_json, results, slept, vvars, cvars>>

Next ==
  \E r \in Requests :
    \/ Arrive(r)
    \/ Webhook(r)
    \/ GetClientRaises(r)
    \/ InvokeAgent(r)
    \/ CallReturns(r)
    \/ CallRaises(r)
    \/ SleepEnds(r)

Spec == Init /\ [][Next]_vars

\* the event loop runs a task that can run: a background task that was
\* added is started; a downstream call returns or fails; a sleep elapses
Fairness ==
  \A r \in Requests :
    /\ WF_vars(GetClientRaises(r) \/ InvokeAgent(r))
    /\ WF_vars(CallReturns(r) \/ CallRaises(r))
    /\ WF_vars(SleepEnds(r))

SpecLive == Spec /\ Fairness

----------------------------------------------------------------------------
(* The handler on its own: one delivery, any body, any signature header,   *)
(* any event header                                                         *)

HandlerBodies ==
  Bodies \cup {BodyOpenedNoNumber, BodyOpenedNoRepo, BodyOpenedEmptyObjects}

WebhookAny(r) ==
  /\ pc[r] = "receiving"
  /\ \E body \in HandlerBodies, x_github_event \in Events :
       \E x_hub_signature_256 \in AllHeaders(body) :
         Handle(r, body, x_hub_signature_256, x_github_event)

NextHandler == Arrive(1) \/ WebhookAny(1)

SpecHandler == Init /\ [][NextHandler]_vars

----------------------------------------------------------------------------
(* The process from its start: import, lifespan startup, then one delivery *)

Required == {"LANGGRAPH_API_KEY", "AGENT_API_URL", "AGENT_ID", "GITHUB_WEBHOOK_SECRET"}

Environments ==
  [LANGGRAPH_API_KEY : {Unset, Set(""), Set("test-api-key")},
   AGENT_API_URL : {Unset, Set(""), Set("https://test.langgraph.app")},
   AGENT_ID : {Unset, Set(""), Set("test-agent-id")},
   GITHUB_WEBHOOK_SECRET : {Unset, Set(""), Set("test-secret"), Set("wrong-secret")},
   PORT : {Unset, Set("8000"), Set("9000"), Set("not-a-port")}]

InitStartup ==
  /\ pc = [r \in Requests |-> "idle"]
  /\ request = [r \in Requests |-> NoRequest]
  /\ response = [r \in Requests |-> NoResponse]
  /\ stages = [r \in Requests |-> <<>>]
  /\ tasks = [r \in Requests |-> <<>>]
  /\ escaped = [r \in Requests |-> ""]
  /\ dpc = [r \in Requests |-> "none"]
  /\ attempt = [r \in Requests |-> 0]
  /\ payload_json = [r \in Requests |-> ""]
  /\ calls = [r \in Requests |-> <<>>]
  /\ results = [r \in Requests |-> <<>>]
  /\ slept = [r \in Requests |-> <<>>]
  /\ log = [r \in Requests |-> <<>>]
  /\ vin = [payload_body |-> "", signature_header |-> None, secret |-> ""]
  /\ vout = Pending
  /\ env \in Environments
  /\ config = NoConfig
  /\ proc = "importing"

\* lines 22-28 at import: int() of a PORT that is no number ends the process
Import ==
  /\ proc = "importing"
  /\ LET globals == module_configuration(env)
     IN  IF globals.kind = "raise"
         THEN proc' = "exited" /\ UNCHANGED config
         ELSE proc' = "starting" /\ config' = globals.ret
  /\ UNCHANGED <<env, hvars, dvars, vvars>>

\* lines 93-108: lifespan startup; the server exits when validate_config raises
Lifespan ==
  /\ proc = "starting"
  /\ proc' = IF validate_config(config).kind = "raise" THEN "exited" ELSE "serving"
  /\ UNCHANGED <<env, config, hvars, dvars, vvars>>

\* the signature headers of the deliveries: none, or the signature of the
\* body under a key that may or may not be the configured secret
StartupHeaders(body) ==
  {None} \cup {Some(generate_signature(body, key)) :
                 key \in {"", "test-secret", "wrong-secret"}}

WebhookStartup(r) ==
  /\ pc[r] = "receiving"
  /\ \E body \in Bodies, x_github_event \in ServedEvents :
       \E x_hub_signature_256 \in StartupHeaders(body) :
         Handle(r, body, x_hub_signature_256, x_github_event)

NextStartup ==
  \/ Import
  \/ Lifespan
  \/ Arrive(1)
  \/ WebhookStartup(1)
  \/ GetClientRaises(1)
  \/ InvokeAgent(1)
  \/ CallReturns(1)
  \/ CallRaises(1)
  \/ SleepEnds(1)

SpecStartup == InitStartup /\ [][NextStartup]_vars

----------------------------------------------------------------------------
(* Verification on its own: one call of verify_signature on drawn inputs *)

InitVerify ==
  /\ \E b \in Bodies, s \in Secrets :
       \E h \in AllHeaders(b) :
         vin = [payload_body |-> b, signature_header |-> h, secret |-> s]
  /\ vout = Pending
  /\ pc = [r \in Requests |-> "idle"]
  /\ request = [r \in Requests |-> NoRequest]
  /\ response = [r \in Requests |-> NoResponse]
  /\ stages = [r \in Requests |-> <<>>]
  /\ tasks = [r \in Requests |-> <<>>]
  /\ escaped = [r \in Requests |-> ""]
  /\ dpc = [r \in Requests |-> "none"]
  /\ attempt = [r \in Requests |-> 0]
  /\ payload_json = [r \in Requests |-> ""]
  /\ calls = [r \in Requests |-> <<>>]
  /\ results = [r \in Requests |-> <<>>]
  /\ slept = [r \in Requests |-> <<>>]
  /\ log = [r \in Requests |-> <<>>]
  /\ env = TestEnv
  /\ config = module_configuration(TestEnv).ret
  /\ proc = "serving"

CallVerify ==
  /\ vout = Pending
  /\ vout' = verify_signature(vin.payload_body, vin.signature_header, vin.secret)
  /\ UNCHANGED <<vin, hvars, dvars, cvars>>

SpecVerify == InitVerify /\ [][CallVerify]_vars

----------------------------------------------------------------------------
(* What the specification says of a delivery, in its own terms *)

Responded(r) == pc[r] = "responded"

Unauthorized == HTTPException(401, "Invalid signature")
BadRequest == HTTPException(400, "Invalid JSON payload")
Ignored == Response("Event ignored", 200)
Accepted == Response("Accepted", 202)

\* the signature header is the one GitHub computes for the body
Authentic(req) ==
  req.x_hub_signature_256 = Some(generate_signature(req.body, GITHUB_WEBHOOK_SECRET))

Decodable(req) == json_loads(req.body).kind = "return"

\* the payload's action, JNull when there is none
ActionOf(req) ==
  LET payload == json_loads(req.body).ret
  IN  IF payload.type = "dict" /\ "action" \in DOMAIN payload.d
      THEN payload.d["action"] ELSE JNull

Matches(req) ==
  req.x_github_event = Event("pull_request") /\ ActionOf(req) = JStr("opened")

\* authenticate -> parse -> classify -> dispatch
OrderedResponse(req) ==
  IF ~Authentic(req) THEN Unauthorized
  ELSE IF ~Decodable(req) THEN BadRequest
  ELSE IF ~Matches(req) THEN Ignored
  ELSE Accepted

\* C1: every delivery ends in exactly one of the four terminal responses
\* 401, 400, 200 "Event ignored", 202 "Accepted", the one the order
\* authenticate -> parse -> classify -> dispatch selects.
OneOfFourResponses ==
  \A r \in Requests :
    Responded(r) =>
      /\ response[r] \in {Unauthorized, BadRequest, Ignored, Accepted}
      /\ response[r] = OrderedResponse(request[r])

\* C2: a delivery whose signature header is absent, malformed or mismatched
\* is answered 401 and nothing else happens: no parse, no classification,
\* no background task.
BadSignatureIs401 ==
  \A r \in Requests :
    Responded(r) /\ ~Authentic(request[r]) =>
      /\ response[r] = Unauthorized
      /\ stages[r] = <<"authenticate">>
      /\ tasks[r] = <<>>

\* C3: an authentic delivery whose body does not decode as JSON is answered
\* 400 whatever its event header, and is neither classified nor dispatched.
UndecodableIs400 ==
  \A r \in Requests :
    Responded(r) /\ Authentic(request[r]) /\ ~Decodable(request[r]) =>
      /\ response[r] = BadRequest
      /\ stages[r] = <<"authenticate", "parse">>
      /\ tasks[r] = <<>>

\* C4: an authentic delivery with a decodable body is answered 202 exactly
\* when the event header is pull_request and the action is opened, and 200
\* "Event ignored" otherwise; nothing else of the payload matters.
ClassifiedByEventAndAction ==
  \A r \in Requests :
    Responded(r) /\ Authentic(request[r]) /\ Decodable(request[r]) =>
      response[r] = IF Matches(request[r]) THEN Accepted ELSE Ignored

\* C5: a background task is added exactly once for a delivery answered
\* 202 and never for any other delivery; the task holds the delivery's own
\* decoded payload, and no downstream call carries anything else.
DispatchIffAccepted ==
  \A r \in Requests :
    /\ Len(tasks[r]) <= 1
    /\ ~Responded(r) => tasks[r] = <<>>
    /\ Responded(r) => (Len(tasks[r]) = 1 <=> response[r] = Accepted)
    /\ response[r] # Accepted => dpc[r] = "none" /\ calls[r] = <<>>
    /\ tasks[r] # <<>> =>
         /\ Authentic(request[r]) /\ Decodable(request[r]) /\ Matches(request[r])
         /\ stages[r] = <<"authenticate", "parse", "classify", "dispatch">>
         /\ tasks[r][1].payload = json_loads(request[r].body).ret
    /\ \A k \in 1..Len(calls[r]) :
         calls[r][k].input.messages[1].content =
           json_dumps(json_loads(request[r].body).ret).ret

DispatchIffAcceptedWitness ==
  \E r \in Requests :
    Responded(r) /\ response[r] = Accepted /\ Len(tasks[r]) = 1 /\ Len(calls[r]) = 1

Finished(r) == dpc[r] \in {"returned", "raised"}

\* the retry loop: no more than MAX_RETRIES calls, a call only after every
\* earlier call failed, a return only after a success or the last failure
RetryDiscipline ==
  \A r \in Requests :
    /\ Len(calls[r]) <= MAX_RETRIES
    /\ Len(results[r]) <= Len(calls[r])
    /\ \A k \in 1..(Len(calls[r]) - 1) : results[r][k] = "error"
    /\ dpc[r] = "returned" =>
         /\ Len(results[r]) = Len(calls[r])
         /\ results[r][Len(results[r])] = "ok" \/ Len(calls[r]) = MAX_RETRIES

\* C6: every dispatch makes at least 1 and at most 3 downstream attempts,
\* attempt k+1 only after attempts 1..k all failed, none after a success,
\* none after a failed attempt 3.
OneToThreeAttempts ==
  /\ RetryDiscipline
  /\ \A r \in Requests : Finished(r) => Len(calls[r]) >= 1

\* C7: no exception leaves invoke_agent, whichever of its steps fails.
DispatchNeverRaises ==
  \A r \in Requests : dpc[r] # "raised"

RECURSIVE Sum(_)
Sum(seq) == IF seq = <<>> THEN 0 ELSE Head(seq) + Sum(Tail(seq))

\* C8: waits happen only between attempts: 1s after a failed attempt 1, 2s
\* after a failed attempt 2, none after attempt 3 or after a success; the
\* waits of one dispatch total 0, 1 or 3 seconds.
BackoffOnlyBetweenAttempts ==
  \A r \in Requests :
    /\ slept[r] \in {<<>>, <<1>>, <<1, 2>>}
    /\ Len(slept[r]) =
         Cardinality({k \in 1..Len(results[r]) : results[r][k] = "error" /\ k < MAX_RETRIES})
    /\ Sum(slept[r]) \in {0, 1, 3}
    /\ dpc[r] = "sleeping" =>
         /\ Len(slept[r]) = Len(results[r])
         /\ results[r][Len(results[r])] = "error"

BackoffOnlyBetweenAttemptsWitness ==
  \E r \in Requests :
    /\ dpc[r] = "returned"
    /\ results[r] = <<"error", "error", "error">>
    /\ slept[r] = <<1, 2>>

\* C9: the response of an accepted delivery is 202 "Accepted" before the
\* dispatch takes its first step, and no step of the dispatch, whatever the
\* downstream outcomes, changes a response once produced.
ResponseFixedBeforeDispatch ==
  /\ [](\A r \in Requests : dpc[r] # "none" => Responded(r) /\ response[r] = Accepted)
  /\ [][\A r \in Requests :
          Responded(r) => response'[r] = response[r] /\ pc'[r] = pc[r]]_vars

ResponseFixedBeforeDispatchWitness ==
  \E r \in Requests :
    /\ response[r] = Accepted
    /\ dpc[r] = "sleeping"
    /\ results[r] = <<"error", "error">>

\* C10: verify_signature returns True exactly for "sha256=" followed by the
\* lowercase hexadecimal HMAC-SHA256 of the body under the secret, and
\* returns False for every other header.
VerifyReturnsIffValid ==
  vout # Pending =>
    vout = Return(vin.signature_header =
                    Some(generate_signature(vin.payload_body, vin.secret)))

Serving == proc = "serving"

NothingServed ==
  \A r \in Requests : pc[r] = "idle" /\ response[r] = NoResponse /\ dpc[r] = "none"

\* C11 as stated: with any of the five values absent (API key, API URL,
\* agent id, webhook secret, listen port) the process never serves.
FailsFastOnAnyOfFive ==
  (\E name \in Required \cup {"PORT"} : ~env[name].some) =>
    ~Serving /\ NothingServed

\* C11: with any of the four values API key, API URL, agent id, webhook
\* secret absent or empty the process never serves a request; an absent
\* listen port is 8000 and does not stop the startup.
FailsFastOnRequired ==
  /\ (\E name \in Required : getenv(env, name, "") = "") =>
       ~Serving /\ NothingServed
  /\ ~Serving => NothingServed
  /\ ~env["PORT"].some /\ proc \in {"starting", "serving"} => config["PORT"] = 8000

FailsFastOnRequiredWitness ==
  /\ proc = "exited"
  /\ config # NoConfig
  /\ ~env["GITHUB_WEBHOOK_SECRET"].some
  /\ \A name \in Required \ {"GITHUB_WEBHOOK_SECRET"} : getenv(env, name, "") # ""

\* C12: every downstream attempt is a threadless run of the configured
\* agent whose input is one message, role "human", whose content is the
\* JSON text of the delivery's whole decoded payload; the attempts of one
\* dispatch all send the same input.
EveryAttemptSendsFullPayload ==
  \A r \in Requests :
    \A k \in 1..Len(calls[r]) :
      LET run == calls[r][k]
      IN  /\ run.thread_id = "None"
          /\ run.assistant_id = config["AGENT_ID"]
          /\ Len(run.input.messages) = 1
          /\ run.input.messages[1].role = "human"
          /\ run.input.messages[1].content =
               json_dumps(json_loads(request[r].body).ret).ret
          /\ run.input.messages[1].content # tasks[r][1].pr_info
          /\ run = calls[r][1]

EveryAttemptSendsFullPayloadWitness ==
  \E r \in Requests :
    /\ Len(calls[r]) = MAX_RETRIES
    /\ request[r].body = BodyOpenedFull

\* the decoded payload of a delivery
PayloadOf(req) == json_loads(req.body).ret

\* key is missing from object obj
Missing(obj, key) == obj.type = "dict" /\ key \notin DOMAIN obj.d

\* parent.key is absent: payload has no parent, or parent is an object
\* without key
AbsentIn(payload, parent, key) ==
  \/ Missing(payload, parent)
  \/ payload.type = "dict" /\ parent \in DOMAIN payload.d
       /\ Missing(payload.d[parent], key)

\* repository and pull_request, where present, are objects
ObjectParents(payload) ==
  /\ payload.type = "dict"
  /\ \A parent \in {"repository", "pull_request"} \cap DOMAIN payload.d :
       payload.d[parent].type = "dict"

LabelOf(payload) ==
  "PR #"
    \o (IF Missing(payload, "number") THEN "unknown"
        ELSE format(payload.d["number"]))
    \o " in "
    \o (IF AbsentIn(payload, "repository", "full_name") THEN "unknown"
        ELSE format(payload.d["repository"].d["full_name"]))

\* some display field of the payload is absent
SomeFieldAbsent(payload) ==
  \/ Missing(payload, "number")
  \/ AbsentIn(payload, "repository", "full_name")
  \/ AbsentIn(payload, "pull_request", "title")

\* C13: an authentic pull_request/opened delivery in which number,
\* repository.full_name or pull_request.title is absent is still answered
\* 202 with one task, whose label "PR #<number> in <repo>" has "unknown"
\* for each absent field; no exception leaves the handler.
AbsentFieldsNeverFail ==
  \A r \in Requests :
    LET payload == PayloadOf(request[r])
    IN  /\ Responded(r) /\ Authentic(request[r]) /\ Decodable(request[r])
        /\ Matches(request[r]) /\ SomeFieldAbsent(payload)
        => /\ response[r] = Accepted
           /\ escaped[r] = ""
           /\ Len(tasks[r]) = 1
           /\ tasks[r][1].pr_info = LabelOf(payload)

\* the same where repository and pull_request, if present, are objects
AbsentFieldsAreUnknown ==
  \A r \in Requests :
    LET payload == PayloadOf(request[r])
    IN  /\ Responded(r) /\ Authentic(request[r]) /\ Decodable(request[r])
        /\ Matches(request[r]) /\ ObjectParents(payload)
        /\ SomeFieldAbsent(payload)
        => /\ response[r] = Accepted
           /\ escaped[r] = ""
           /\ Len(tasks[r]) = 1
           /\ tasks[r][1].pr_info = LabelOf(payload)

AbsentFieldsAreUnknownWitness ==
  \E r \in Requests :
    /\ Responded(r)
    /\ request[r].body = BodyOpenedNoRepo
    /\ response[r] = Accepted
    /\ tasks[r][1].pr_info = "PR #42 in unknown"

\* the positions of the records of log[r] with message msg
RecordsOf(r, msg) == {i \in 1..Len(log[r]) : log[r][i].msg = msg}

Successes(r) == RecordsOf(r, "Agent invocation successful")
Exhaustions(r) == RecordsOf(r, "Agent invocation failed after attempts")
Starts(r) == RecordsOf(r, "Invoking agent") \cup RecordsOf(r, "Retrying agent")
Failures(r) == RecordsOf(r, "Agent invocation failed. Retrying")

\* what the loop records: success at most once and exactly when an attempt
\* succeeded, exhaustion at most once and exactly when MAX_RETRIES attempts
\* failed, never both; every attempt start, intermediate failure and
\* terminal record carries the label of the dispatch; an attempt after the
\* first starts right after the record of the failure before it
RecordsOfTheLoop ==
  \A r \in Requests :
    /\ Cardinality(Successes(r)) =
         Cardinality({k \in 1..Len(results[r]) : results[r][k] = "ok"})
    /\ Cardinality(Successes(r)) <= 1
    /\ Cardinality(Exhaustions(r)) =
         (IF results[r] = [k \in 1..MAX_RETRIES |-> "error"] THEN 1 ELSE 0)
    /\ Successes(r) = {} \/ Exhaustions(r) = {}
    /\ \A i \in Starts(r) \cup Failures(r) \cup Successes(r) \cup Exhaustions(r) :
         log[r][i].pr_info = tasks[r][1].pr_info
    /\ Cardinality(Starts(r)) = Len(calls[r])
    /\ Cardinality(Failures(r)) = Len(slept[r])
    /\ \A i \in RecordsOf(r, "Retrying agent") :
         /\ i - 1 \in Failures(r)
         /\ log[r][i - 1].n = RETRY_DELAYS[log[r][i].n - 1]
    /\ \A i \in Failures(r) :
         i < Len(log[r]) => i + 1 \in RecordsOf(r, "Retrying agent")
    /\ \A i \in Successes(r) \cup Exhaustions(r) : \A j \in Starts(r) : j < i

\* C14: every dispatch ends in exactly one recorded terminal outcome:
\* success once iff an attempt succeeded, exhaustion once iff all 3 attempts
\* failed, never both and never neither; the records carry the dispatch's
\* label and a failed attempt 1 or 2 is recorded before the next attempt.
ExactlyOneTerminalRecord ==
  /\ RecordsOfTheLoop
  /\ \A r \in Requests :
       Finished(r) => Cardinality(Successes(r) \cup Exhaustions(r)) = 1

\* a dispatch that returned has its one terminal record
ReturnedHasTerminalRecord ==
  /\ RecordsOfTheLoop
  /\ \A r \in Requests :
       dpc[r] = "returned" => Cardinality(Successes(r) \cup Exhaustions(r)) = 1

\* once ended, a dispatch stays ended: nothing queues it again
NeverRequeued ==
  [][\A r \in Requests :
       Finished(r) =>
         /\ dpc'[r] = dpc[r]
         /\ calls'[r] = calls[r]
         /\ slept'[r] = slept[r]]_vars

\* every scheduled dispatch ends, one way or another
DispatchEnds ==
  /\ \A r \in Requests : dpc[r] = "scheduled" ~> Finished(r)
  /\ NeverRequeued

\* C15: when every downstream call returns or fails and every wait elapses,
\* every scheduled dispatch eventually ends in success or in exhaustion,
\* and a dispatch that ended is never queued again.
DispatchEndsInSuccessOrExhaustion ==
  /\ \A r \in Requests :
       dpc[r] = "scheduled" ~>
         /\ dpc[r] = "returned"
         /\ Cardinality(Successes(r) \cup Exhaustions(r)) = 1
  /\ NeverRequeued

\* the state of delivery r and of its dispatch
Row(r) ==
  <<pc[r], request[r], response[r], stages[r], tasks[r], escaped[r],
    dpc[r], attempt[r], payload_json[r], calls[r], results[r], slept[r], log[r]>>

\* the number of failed attempts of dispatch r
Errors(r) == Cardinality({k \in 1..Len(results[r]) : results[r][k] = "error"})

Min(a, b) == IF a < b THEN a ELSE b

\* r's response and task are what the handler computes from r's own body
\* and headers
OwnResponse(r) ==
  Responded(r) =>
    LET out == webhook(request[r].body, request[r].x_hub_signature_256,
                       request[r].x_github_event)
    IN  response[r] = out.response /\ tasks[r] = out.tasks

\* r's calls, waits and outcome are what r's own downstream results give,
\* and every call sends r's own payload
OwnDispatch(r) ==
  /\ dpc[r] \in {"calling", "sleeping", "returned"} =>
       /\ Len(calls[r]) = IF dpc[r] = "sleeping" THEN Errors(r)
                          ELSE Min(Errors(r) + 1, MAX_RETRIES)
       /\ slept[r] = SubSeq(RETRY_DELAYS, 1, Min(Errors(r), MAX_RETRIES - 1))
       /\ dpc[r] = "returned" <=>
            \/ Errors(r) = MAX_RETRIES
            \/ Len(results[r]) > 0 /\ results[r][Len(results[r])] = "ok"
  /\ dpc[r] \in {"none", "scheduled", "raised"} =>
       calls[r] = <<>> /\ results[r] = <<>> /\ slept[r] = <<>>
  /\ \A k \in 1..Len(calls[r]) :
       calls[r][k] = RunsWait(json_dumps(json_loads(request[r].body).ret).ret)

\* C16: concurrent deliveries are independent: under every interleaving
\* each response is a function of the delivery's own body and headers, each
\* dispatch's attempts, waits and outcome of its own downstream results,
\* each call carries its own delivery's payload, every step writes the state
\* of one delivery only, and the configuration is never written.
DeliveriesIndependent ==
  /\ [](\A r \in Requests : OwnResponse(r) /\ OwnDispatch(r))
  /\ [][/\ \E r \in Requests : \A q \in Requests \ {r} : Row(q)' = Row(q)
        /\ config' = config
        /\ env' = env]_vars

DeliveriesIndependentWitness ==
  /\ request[1].body # request[2].body
  /\ response[1] = Accepted /\ response[2] = Accepted
  /\ dpc[1] = "calling" /\ Len(calls[1]) = 2
  /\ dpc[2] = "sleeping" /\ Len(calls[2]) = 1

OrchestrationStates == <<"authenticate", "parse", "classify", "dispatch">>

\* C17 as stated: the handler has no suspension point: from the arrival of
\* a delivery to its response no step of another delivery or dispatch is
\* taken.
HandlerNeverSuspends ==
  [][\A r \in Requests : pc[r] = "receiving" => pc'[r] = "responded"]_vars

\* C17: a dispatch is suspended only in its downstream call and in its wait
\* between attempts; the handler is suspended only in reading the body,
\* before authentication; the orchestration states of a delivery, in order,
\* and its response are the work of one step, in which no other delivery or
\* dispatch moves.
HandlerSuspendsOnlyForBody ==
  /\ [](\A r \in Requests :
          /\ pc[r] \in {"idle", "receiving", "responded"}
          /\ dpc[r] \in {"none", "scheduled", "calling", "sleeping", "returned", "raised"}
          /\ ~Responded(r) =>
               /\ stages[r] = <<>> /\ response[r] = NoResponse
               /\ tasks[r] = <<>> /\ dpc[r] = "none"
          /\ Responded(r) =>
               /\ stages[r] # <<>> /\ response[r] # NoResponse
               /\ stages[r] = SubSeq(OrchestrationStates, 1, Len(stages[r])))
  /\ [][\A r \in Requests :
          stages'[r] # stages[r] =>
            /\ pc[r] = "receiving" /\ pc'[r] = "responded"
            /\ \A q \in Requests \ {r} : Row(q)' = Row(q)]_vars

HandlerSuspendsOnlyForBodyWitness ==
  /\ pc[1] = "receiving" /\ stages[1] = <<>>
  /\ Responded(2) /\ stages[2] = OrchestrationStates
  /\ dpc[2] = "sleeping"

\* delivery r passed verify_signature
Authenticated(r) == Len(stages[r]) > 1

\* C18: in a process that serves, API key, API URL, agent id and webhook
\* secret are non-empty, are the values of the environment at import, and
\* never change; a delivery is authenticated only by the signature of its
\* body under that secret, never under the empty key; every downstream
\* call goes to that URL with that key for that agent.
ConfigurationFixedAndNonEmpty ==
  /\ [](Serving =>
          \A name \in Required :
            config[name] # "" /\ config[name] = getenv(env, name, ""))
  /\ [][proc # "importing" => config' = config /\ env' = env]_vars
  /\ [](\A r \in Requests :
          /\ pc[r] # "idle" => Serving
          /\ Authenticated(r) =>
               /\ request[r].x_hub_signature_256 =
                    Some(generate_signature(request[r].body,
                                            config["GITHUB_WEBHOOK_SECRET"]))
               /\ request[r].x_hub_signature_256 #
                    Some(generate_signature(request[r].body, ""))
          /\ Responded(r) /\ ~Authenticated(r) =>
               request[r].x_hub_signature_256 #
                 Some(generate_signature(request[r].body,
                                         config["GITHUB_WEBHOOK_SECRET"]))
          /\ \A k \in 1..Len(calls[r]) :
               /\ calls[r][k].assistant_id = config["AGENT_ID"]
               /\ calls[r][k].client.url = config["AGENT_API_URL"]
               /\ calls[r][k].client.api_key = config["LANGGRAPH_API_KEY"]
               /\ calls[r][k].assistant_id # ""
               /\ calls[r][k].client.url # "")

ConfigurationFixedAndNonEmptyWitness ==
  /\ Serving
  /\ config["GITHUB_WEBHOOK_SECRET"] = "wrong-secret"
  /\ env["PORT"] = Set("9000")
  /\ \E r \in Requests :
       /\ Authenticated(r)
       /\ Len(calls[r]) = MAX_RETRIES
       /\ calls[r][MAX_RETRIES].assistant_id = "test-agent-id"

=============================================================================
